---- MODULE Spec2Model ----
(***************************************************************************)
(* Model of src/scraper.py: the per-page pipeline of the crawler           *)
(* (Scraper.scraper / Scraper.extract_next_links), the URL validator       *)
(* is_valid, the robots.txt check, the fingerprint generator and the trap  *)
(* detector, over the class-level session state of Scraper.                *)
(*                                                                         *)
(* URLs are strings, parsed character by character the way                 *)
(* urllib.parse does it for the URL shapes used here (no ";params", no     *)
(* userinfo, no dot segments).  A page body is modelled after the content  *)
(* extractor has run on it: its token list (re.findall on the page text)   *)
(* and the href of each of its anchors.                                    *)
(*                                                                         *)
(* A function of the source that binds intermediate values is written as a *)
(* chain of operators, each passing the values it has computed to the      *)
(* operator of the lines that follow.                                      *)
(***************************************************************************)
EXTENDS Integers, Sequences, FiniteSets, TLC

(***************************************************************************)
(* Python strings                                                          *)
(***************************************************************************)
None == "<None>"

Char(s, i) == SubSeq(s, i, i)

\* s[i:] (1-based i) and s[:i]
From(s, i) == SubSeq(s, i, Len(s))

Upto(s, i) == SubSeq(s, 1, i)

\* str.find: the 1-based index of the first occurrence of character c, 0 if none
RECURSIVE FindFrom(_, _, _)
FindFrom(s, c, i) ==
    IF i > Len(s) THEN 0
    ELSE IF Char(s, i) = c THEN i
    ELSE FindFrom(s, c, i + 1)

Find(s, c) == FindFrom(s, c, 1)

Contains(s, c) == Find(s, c) # 0

StartsWith(s, p) == Len(s) >= Len(p) /\ Upto(s, Len(p)) = p

EndsWith(s, p) == Len(s) >= Len(p) /\ From(s, Len(s) - Len(p) + 1) = p

\* the substring test  `sub in s`
HasSub(s, sub) == \E i \in 1..(Len(s) - Len(sub) + 1) : SubSeq(s, i, i + Len(sub) - 1) = sub

Range(seq) == {seq[i] : i \in 1..Len(seq)}

UPPERCASE_LETTERS ==
    {"A", "B", "C", "D", "E", "F", "G", "H", "I", "J", "K", "L", "M",
     "N", "O", "P", "Q", "R", "S", "T", "U", "V", "W", "X", "Y", "Z"}

LOWERCASE_LETTERS ==
    {"a", "b", "c", "d", "e", "f", "g", "h", "i", "j", "k", "l", "m",
     "n", "o", "p", "q", "r", "s", "t", "u", "v", "w", "x", "y", "z"}

DIGITS == {"0", "1", "2", "3", "4", "5", "6", "7", "8", "9"}

LowerChar(c) ==
    CASE c = "A" -> "a" [] c = "B" -> "b" [] c = "C" -> "c" [] c = "D" -> "d"
      [] c = "E" -> "e" [] c = "F" -> "f" [] c = "G" -> "g" [] c = "H" -> "h"
      [] c = "I" -> "i" [] c = "J" -> "j" [] c = "K" -> "k" [] c = "L" -> "l"
      [] c = "M" -> "m" [] c = "N" -> "n" [] c = "O" -> "o" [] c = "P" -> "p"
      [] c = "Q" -> "q" [] c = "R" -> "r" [] c = "S" -> "s" [] c = "T" -> "t"
      [] c = "U" -> "u" [] c = "V" -> "v" [] c = "W" -> "w" [] c = "X" -> "x"
      [] c = "Y" -> "y" [] c = "Z" -> "z" [] OTHER -> c

RECURSIVE LowerFrom(_, _)
LowerFrom(s, i) ==
    IF i > Len(s) THEN "" ELSE LowerChar(Char(s, i)) \o LowerFrom(s, i + 1)

\* str.lower
lower(s) ==
    IF \A i \in 1..Len(s) : Char(s, i) \notin UPPERCASE_LETTERS THEN s ELSE LowerFrom(s, 1)

(***************************************************************************)
(* urllib.parse, as used by the scraper                                    *)
(***************************************************************************)
\* urllib.parse.scheme_chars
SCHEME_CHARS == LOWERCASE_LETTERS \cup UPPERCASE_LETTERS \cup DIGITS \cup {"+", "-", "."}

\* url[:i] is a scheme: it starts with a letter and holds scheme characters only
IsScheme(s) ==
    /\ s # ""
    /\ Char(s, 1) \in LOWERCASE_LETTERS \cup UPPERCASE_LETTERS
    /\ \A i \in 1..Len(s) : Char(s, i) \in SCHEME_CHARS

\* the first index of any of "/", "?", "#" at or after position i; Len(s)+1 if none
RECURSIVE NetlocEnd(_, _)
NetlocEnd(s, i) ==
    IF i > Len(s) THEN i
    ELSE IF Char(s, i) \in {"/", "?", "#"} THEN i
    ELSE NetlocEnd(s, i + 1)

\* urlsplit, last step: the query is what follows the first "?" (qm, 0 if none);
\* error is TRUE where urlsplit raises ValueError("Invalid IPv6 URL")
split_query(scheme, netloc, rest, fragment, qm) ==
    [scheme |-> scheme, netloc |-> netloc,
     path |-> IF qm # 0 THEN Upto(rest, qm - 1) ELSE rest,
     query |-> IF qm # 0 THEN From(rest, qm + 1) ELSE "",
     fragment |-> fragment,
     error |-> Contains(netloc, "[") # Contains(netloc, "]")]

\* urlsplit: the fragment is what follows the first "#" (hash, 0 if none or
\* when allow_fragments is False)
split_fragment(scheme, netloc, rest, hash) ==
    IF hash # 0
    THEN split_query(scheme, netloc, Upto(rest, hash - 1), From(rest, hash + 1),
                     Find(Upto(rest, hash - 1), "?"))
    ELSE split_query(scheme, netloc, rest, "", Find(rest, "?"))

\* urlsplit: after "//" the netloc runs up to nend, the first of "/", "?", "#"
split_netloc(scheme, rest, nend, allow_fragments) ==
    IF StartsWith(rest, "//")
    THEN split_fragment(scheme, SubSeq(rest, 3, nend - 1), From(rest, nend),
                        IF allow_fragments THEN Find(From(rest, nend), "#") ELSE 0)
    ELSE split_fragment(scheme, "", rest, IF allow_fragments THEN Find(rest, "#") ELSE 0)

\* urlsplit: the scheme is what precedes the first ":" (colon, 0 if none)
split_scheme(url, colon, allow_fragments) ==
    IF colon > 1 /\ IsScheme(Upto(url, colon - 1))
    THEN split_netloc(lower(Upto(url, colon - 1)), From(url, colon + 1),
                      NetlocEnd(From(url, colon + 1), 3), allow_fragments)
    ELSE split_netloc("", url, NetlocEnd(url, 3), allow_fragments)

urlsplit(url, allow_fragments) == split_scheme(url, Find(url, ":"), allow_fragments)

\* urlparse: path and params stay together, the URLs used hold no ";"
urlparse(url, allow_fragments) == urlsplit(url, allow_fragments)

\* urllib.parse.uses_netloc, without the empty scheme
USES_NETLOC ==
    {"ftp", "http", "gopher", "nntp", "telnet", "imap", "wais", "file", "mms", "https",
     "shttp", "snews", "prospero", "rtsp", "rtsps", "rtspu", "rsync", "svn", "svn+ssh",
     "sftp", "nfs", "git", "git+ssh", "ws", "wss"}

\* urlunparse((scheme, netloc, path, "", query, fragment))
urlunparse(scheme, netloc, path, query, fragment) ==
    (IF scheme # "" THEN scheme \o ":" ELSE "")
    \o (IF netloc # "" \/ (scheme \in USES_NETLOC /\ ~StartsWith(path, "//"))
        THEN "//" \o netloc \o (IF path # "" /\ ~StartsWith(path, "/") THEN "/" ELSE "")
        ELSE "")
    \o path
    \o (IF query # "" THEN "?" \o query ELSE "")
    \o (IF fragment # "" THEN "#" \o fragment ELSE "")

defrag_result(p) ==
    [url |-> urlunparse(p.scheme, p.netloc, p.path, p.query, ""),
     fragment |-> p.fragment, error |-> p.error]

\* urldefrag(url): the DefragResult named tuple (url, fragment)
urldefrag(url) ==
    IF Contains(url, "#") THEN defrag_result(urlparse(url, TRUE))
    ELSE [url |-> url, fragment |-> "", error |-> FALSE]

\* urljoin with base parsed as b and the href as u
join_parsed(href, b, u) ==
    IF b.error \/ u.error THEN [url |-> href, error |-> TRUE]
    ELSE IF u.scheme # "" /\ u.scheme # b.scheme THEN [url |-> href, error |-> FALSE]
    ELSE IF u.netloc # ""
         THEN [url |-> urlunparse(b.scheme, u.netloc, u.path, u.query, u.fragment),
               error |-> FALSE]
    ELSE [url |-> urlunparse(b.scheme, b.netloc,
                             IF u.path = "" THEN b.path ELSE u.path,
                             IF u.path = "" /\ u.query = "" THEN b.query ELSE u.query,
                             u.fragment),
          error |-> FALSE]

\* urljoin(base, href) for an absent href, an absolute href and an absolute path
urljoin(base, href) ==
    IF href = None \/ href = "" THEN [url |-> base, error |-> FALSE]
    ELSE join_parsed(href, urlparse(base, TRUE), urlsplit(href, TRUE))

\* no_scheme_of with the scheme passed to urlunparse in place of ""
no_scheme_with_scheme(p) == p.netloc \o urlunparse(p.scheme, "", p.path, p.query, "")

\* netloc + urlunparse(("", "", path, params, query, "")) (lines 63, 103, 114)
no_scheme_of(p) == p.netloc \o urlunparse("", "", p.path, p.query, "")

(***************************************************************************)
(* is_valid                                                                *)
(***************************************************************************)
ALLOWED_DOMAINS == {"ics", "cs", "informatics", "stat"}

DENIED_EXTENSIONS ==
    {"css", "js", "bmp", "gif", "jpg", "jpeg", "ico", "png", "tif", "tiff", "mid", "mp2",
     "mp3", "mp4", "wav", "avi", "mov", "mpeg", "ram", "m4v", "mkv", "ogg", "ogv", "pdf",
     "ps", "eps", "tex", "ppt", "pptx", "doc", "docx", "xls", "xlsx", "names", "data",
     "dat", "exe", "bz2", "tar", "msi", "bin", "7z", "psd", "dmg", "iso", "epub", "dll",
     "cnf", "tgz", "sha1", "thmx", "mso", "arff", "rtf", "jar", "csv", "rm", "smil",
     "wmv", "swf", "wma", "zip", "rar", "gz", "java", "war", "mpg", "ppsx"}

\* str.rfind: the 1-based index of the last occurrence of character c, 0 if none
RECURSIVE FindLast(_, _, _)
FindLast(s, c, i) ==
    IF i = 0 THEN 0
    ELSE IF Char(s, i) = c THEN i
    ELSE FindLast(s, c, i - 1)

\* the extension of a path: what follows its last ".", None when it has none
extension(path, dot) == IF dot = 0 THEN None ELSE From(path, dot + 1)

\* re.match(r".*\.(css|js|...)$", path): the alternatives hold no ".", so the
\* pattern matches when what follows the last "." of the path is one of them
has_denied_extension(path) ==
    extension(path, FindLast(path, ".", Len(path))) \in DENIED_EXTENSIONS

\* is_valid_parsed without the rule of lines 227-237
is_valid_parsed_without_extensions(parsed) ==
    /\ parsed.scheme \in {"http", "https"}
    /\ \E d \in ALLOWED_DOMAINS : EndsWith(parsed.netloc, "." \o d \o ".uci.edu")
    /\ ~HasSub(parsed.path, "/pdf")
    /\ ~(HasSub(parsed.query, "diff") /\ HasSub(parsed.query, "rev"))

\* the rules of is_valid on the parsed URL, in the order of lines 212-237
is_valid_parsed(parsed) ==
    /\ parsed.scheme \in {"http", "https"}
    /\ \E d \in ALLOWED_DOMAINS : EndsWith(parsed.netloc, "." \o d \o ".uci.edu")
    /\ ~HasSub(parsed.path, "/pdf")
    /\ ~(HasSub(parsed.query, "diff") /\ HasSub(parsed.query, "rev"))
    /\ ~has_denied_extension(lower(parsed.path))

\* ret is the boolean returned; raised is TRUE where urlparse raises
\* ValueError, which is_valid does not catch
is_valid_of(parsed) ==
    IF parsed.error THEN [ret |-> FALSE, raised |-> TRUE]
    ELSE [ret |-> is_valid_parsed(parsed), raised |-> FALSE]

is_valid(url) == is_valid_of(urlparse(url, TRUE))

(***************************************************************************)
(* Class attributes of Scraper that are constants                          *)
(***************************************************************************)
ENGLISH_STOPWORDS ==
    {"a", "about", "above", "after", "again", "against", "all", "am", "an", "and", "any",
     "are", "aren't", "as", "at", "be", "because", "been", "before", "being", "below",
     "between", "both", "but", "by", "can't", "cannot", "could", "couldn't", "did", "didn't",
     "do", "does", "doesn't", "doing", "don't", "down", "during", "each", "few", "for", "from",
     "further", "had", "hadn't", "has", "hasn't", "have", "haven't", "having", "he", "he'd",
     "he'll", "he's", "her", "here", "here's", "hers", "herself", "him", "himself", "his",
     "how", "how's", "i", "i'd", "i'll", "i'm", "i've", "if", "in", "into", "is", "isn't",
     "it", "it's", "its", "itself", "let's", "me", "more", "most", "mustn't", "my", "myself",
     "no", "nor", "not", "of", "off", "on", "once", "only", "or", "other", "ought", "our",
     "ours", "ourselves", "out", "over", "own", "same", "shan't", "she", "she'd", "she'll",
     "she's", "should", "shouldn't", "so", "some", "such", "than", "that", "that's", "the",
     "their", "theirs", "them", "themselves", "then", "there", "there's", "these", "they",
     "they'd", "they'll", "they're", "they've", "this", "those", "through", "to", "too",
     "under", "until", "up", "very", "was", "wasn't", "we", "we'd", "we'll", "we're", "we've",
     "were", "weren't", "what", "what's", "when", "when's", "where", "where's", "which",
     "while", "who", "who's", "whom", "why", "why's", "with", "won't", "would", "wouldn't",
     "you", "you'd", "you'll", "you're", "you've", "your", "yours", "yourself", "yourselves"}

PAGE_MIN_SIZE == 250

PAGE_MAX_SIZE == 10000

\* PAGE_SIMILARITY_THRESHOLD = 0.9, as the ratio SIMILARITY_NUM / SIMILARITY_DEN
SIMILARITY_NUM == 9

SIMILARITY_DEN == 10

TRAP_FINGERPRINT_CHECK == 25

ACCEPTED_STATUS == {200, 301, 302, 307, 308}

(***************************************************************************)
(* Fingerprints                                                            *)
(*                                                                         *)
(* hash() is CPython's built-in: for a str it is keyed by the per-process  *)
(* hash seed, for a tuple it combines the hashes of the items.  It is      *)
(* modelled by a polynomial over the character codes, scaled by an odd     *)
(* factor drawn from the seed; what the model keeps is that the value is a *)
(* function of the token sequence and of the seed of the process.          *)
(***************************************************************************)
\* the code of a character of a token ([a-z0-9], line 84)
CharCode(c) ==
    CASE c = "a" -> 1  [] c = "b" -> 2  [] c = "c" -> 3  [] c = "d" -> 4  [] c = "e" -> 5
      [] c = "f" -> 6  [] c = "g" -> 7  [] c = "h" -> 8  [] c = "i" -> 9  [] c = "j" -> 10
      [] c = "k" -> 11 [] c = "l" -> 12 [] c = "m" -> 13 [] c = "n" -> 14 [] c = "o" -> 15
      [] c = "p" -> 16 [] c = "q" -> 17 [] c = "r" -> 18 [] c = "s" -> 19 [] c = "t" -> 20
      [] c = "u" -> 21 [] c = "v" -> 22 [] c = "w" -> 23 [] c = "x" -> 24 [] c = "y" -> 25
      [] c = "z" -> 26 [] c = "0" -> 27 [] c = "1" -> 28 [] c = "2" -> 29 [] c = "3" -> 30
      [] c = "4" -> 31 [] c = "5" -> 32 [] c = "6" -> 33 [] c = "7" -> 34 [] c = "8" -> 35
      [] c = "9" -> 36 [] OTHER -> 0

RECURSIVE WordCode(_)
WordCode(w) ==
    IF w = "" THEN 0
    ELSE WordCode(Upto(w, Len(w) - 1)) * 37 + CharCode(Char(w, Len(w)))

\* hash(w) of a str in a process whose hash seed is seed
StrHash(seed, w) == WordCode(w) * (2 * seed + 1)

\* hash(tuple(gram)) of a 3-gram
TupleHash(seed, gram) ==
    (StrHash(seed, gram[1]) * 31 + StrHash(seed, gram[2])) * 31 + StrHash(seed, gram[3])

\* lines 152-156: the hashes of the 3-grams that are 0 modulo 4
create_fingerprint(words, seed) ==
    {gram_hash \in {TupleHash(seed, SubSeq(words, i, i + 2)) : i \in 1..(Len(words) - 2)} :
        gram_hash % 4 = 0}

\* lines 162-166 on the intersection and the union of lines 160-161
similarity_reaches_threshold(intersection, union) ==
    IF union # {}
    THEN Cardinality(intersection) * SIMILARITY_DEN >= SIMILARITY_NUM * Cardinality(union)
    ELSE \* similarity = int(len(intersection) == len(union)) = 1 >= 0.9
         Cardinality(intersection) = Cardinality(union)

fingerprints_are_similar(fingerprint_1, fingerprint_2) ==
    similarity_reaches_threshold(fingerprint_1 \cap fingerprint_2,
                                 fingerprint_1 \cup fingerprint_2)

\* a window that ends at the most recent entry: range(len-1, len-1-TRAP_FINGERPRINT_CHECK, -1)
TrapIndicesToLast(len) == (len - TRAP_FINGERPRINT_CHECK)..(len - 1)

\* the 0-based indices range(len-2, len-2-TRAP_FINGERPRINT_CHECK, -1)
TrapIndices(len) == (len - 1 - TRAP_FINGERPRINT_CHECK)..(len - 2)

\* list[i] for a 0-based Python index: a negative index counts from the end,
\* an index outside the list raises IndexError
PyIndexOK(list, i) == -Len(list) <= i /\ i < Len(list)

PyIndex(list, i) == IF i >= 0 THEN list[i + 1] ELSE list[Len(list) + i + 1]

\* check_for_recent_trap with "<" for the "<=" of line 170
check_for_recent_trap_early(fingerprint, all_fps) ==
    IF Len(all_fps) < TRAP_FINGERPRINT_CHECK THEN FALSE
    ELSE \E i \in TrapIndices(Len(all_fps)) :
            /\ PyIndexOK(all_fps, i)
            /\ fingerprints_are_similar(fingerprint, PyIndex(all_fps, i))

check_for_recent_trap(fingerprint, all_fps) ==
    IF Len(all_fps) <= TRAP_FINGERPRINT_CHECK THEN FALSE
    ELSE \E i \in TrapIndices(Len(all_fps)) :
            /\ PyIndexOK(all_fps, i)
            /\ fingerprints_are_similar(fingerprint, PyIndex(all_fps, i))

page_is_valid_size(words) ==
    PAGE_MIN_SIZE <= Len(words) /\ Len(words) <= PAGE_MAX_SIZE

Occurrences(words, word) == Cardinality({i \in 1..Len(words) : words[i] = word})

\* for word in words: if word not in ENGLISH_STOPWORDS: word_count[word] += 1,
\* counted being the words of the page that are no stopwords
add_counts(word_count, words, counted) ==
    [w \in DOMAIN word_count \cup counted |->
        (IF w \in DOMAIN word_count THEN word_count[w] ELSE 0)
        + (IF w \in counted THEN Occurrences(words, w) ELSE 0)]

count_words(word_count, words) ==
    add_counts(word_count, words, Range(words) \ ENGLISH_STOPWORDS)

(***************************************************************************)
(* The web: URLs, and page bodies as the content extractor sees them       *)
(***************************************************************************)
Repeat(pattern, n) == [i \in 1..n |-> pattern[((i - 1) % Len(pattern)) + 1]]

PATTERN_A == <<"d", "h", "l", "p", "t", "x", "1", "5", "9">>

WORDS_A == Repeat(PATTERN_A, 250)

\* shares 9 of its 10 retained shingle hashes with WORDS_A
WORDS_B == Repeat(PATTERN_A, 243) \o Repeat(<<"b">>, 7)

\* shares 9 of its 13 retained shingle hashes with WORDS_A
WORDS_C == Repeat(PATTERN_A, 243) \o Repeat(<<"b", "b", "d", "d", "the", "of", "9">>, 7)

\* no shingle hash is retained
WORDS_E == Repeat(<<"b">>, 250)

\* one retained shingle hash, shared with no other page
WORDS_F == Repeat(<<"d">>, 250)

WORDS_G == Repeat(<<"the", "web", "of", "d">>, 300)

\* too short for the size gate
WORDS_T == Repeat(PATTERN_A, 50)

U1 == "http://a.ics.uci.edu/p"

U1s == "https://a.ics.uci.edu/p"

U1f == "http://a.ics.uci.edu/p#s"

U1c == "HTTP://A.ICS.UCI.EDU/P"

U2 == "http://a.ics.uci.edu/q"

U3 == "http://b.cs.uci.edu/r"

U4 == "http://a.ics.uci.edu/f.pdf"

U5 == "http://x.com/p"

\* urlsplit raises ValueError on these: a netloc with "[" and no "]"
U6 == "http://[a.ics.uci.edu/p"

U7 == "http://[b.cs.uci.edu/r"

\* re.findall("[a-z0-9]+", soup.get_text().lower()) of a page body (line 84)
page_words(content) ==
    CASE content = "pA" -> WORDS_A
      [] content = "pB" -> WORDS_B
      [] content = "pC" -> WORDS_C
      [] content = "pE" -> WORDS_E
      [] content = "pF" -> WORDS_F
      [] content = "pG" -> WORDS_G
      [] content = "pH" -> WORDS_F
      [] content = "pT" -> WORDS_T

\* link.get("href") of each anchor of soup.find_all("a") (lines 99-100)
page_hrefs(content) ==
    CASE content = "pA" -> <<"/q", U3, U4, U5, None>>
      [] content = "pB" -> <<U1s, "/q#x", "/q">>
      [] content = "pG" -> <<U1c, U2>>
      [] content = "pH" -> <<"/q", U7, U3>>
      [] content = "pT" -> <<"/q">>
      [] OTHER -> <<>>

Response(url, status, raw_response) ==
    [url |-> url, status |-> status, raw_response |-> raw_response]

(***************************************************************************)
(* The session state s: the class attributes of Scraper (lines 9-16), and  *)
(* two records of what check_robots_txt did: the GETs it issued per        *)
(* robots.txt URL (robots_requests) and the robots.txt URLs of the origins *)
(* it was asked about (robots_queried).                                    *)
(*                                                                         *)
(* web maps a robots.txt URL to what RobotFileParser.read() and can_fetch  *)
(* yield for it: "allow", "deny" (also a 401/403 answer) or "error" (read  *)
(* raises: no route, timeout).                                             *)
(***************************************************************************)
Bump(f, k) ==
    [x \in DOMAIN f \cup {k} |-> IF x = k THEN (IF k \in DOMAIN f THEN f[k] ELSE 0) + 1 ELSE f[x]]

Put(f, k, v) == [x \in DOMAIN f \cup {k} |-> IF x = k THEN v ELSE f[x]]

web_answer(web, robot_url) == IF robot_url \in DOMAIN web THEN web[robot_url] ELSE "error"

\* urlunparse((scheme, netloc, "/robots.txt", "", "", "")) (line 188)
robots_url_of(parsed) == urlunparse(parsed.scheme, parsed.netloc, "/robots.txt", "", "")

\* the robots.txt URL of the origin of url
origin_of(url) == robots_url_of(urlparse(urldefrag(lower(url)).url, FALSE))

\* urlparse(x): _coerce_args takes an argument that is not a str for bytes
\* and calls x.decode, which a DefragResult does not have: AttributeError
urlparse_raises_on(arg_type) == arg_type # "str"

\* lines 192-198: read robots.txt and save the verdict
robots_fetch(s, robot_url, answer) ==
    IF answer = "error"
    THEN [ret |-> TRUE, s |-> [s EXCEPT !.robots_requests = Bump(@, robot_url)]]
    ELSE [ret |-> (answer = "allow"),
          s |-> [s EXCEPT !.robots_requests = Bump(@, robot_url),
                          !.robot_allowed = Put(@, robot_url, answer = "allow")]]

\* lines 189-190: only a cached denial is answered from the cache
robots_cached(s, robot_url, web) ==
    IF robot_url \in DOMAIN s.robot_allowed /\ ~s.robot_allowed[robot_url]
    THEN [ret |-> FALSE, s |-> s]
    ELSE robots_fetch(s, robot_url, web_answer(web, robot_url))

\* robots_parse with the handler of lines 201-202 (return False) taking the
\* exception in place of that of lines 199-200
robots_parse_fail_closed(s, defrag_url, web) ==
    IF defrag_url.error \/ urlparse_raises_on("DefragResult")
    THEN [ret |-> FALSE, s |-> s]
    ELSE robots_cached(s, robots_url_of(urlparse(defrag_url.url, FALSE)), web)

\* lines 186-188: line 185 keeps the DefragResult, not its url, and line 186
\* hands it to urlparse; except Exception: pass; return True
robots_parse(s, defrag_url, web) ==
    IF defrag_url.error \/ urlparse_raises_on("DefragResult")
    THEN [ret |-> TRUE, s |-> s]
    ELSE robots_cached(s, robots_url_of(urlparse(defrag_url.url, FALSE)), web)

\* the result is the returned boolean and the state after the call
check_robots_txt(s, url, web) ==
    robots_parse([s EXCEPT !.robots_queried = @ \cup {origin_of(url)}],
                 urldefrag(lower(url)), web)

(***************************************************************************)
(* Scraper.extract_next_links and Scraper.scraper                          *)
(*                                                                         *)
(* resp is [url, status, raw_response].  The result of a call holds the    *)
(* state after it, the list returned (ret), whether the call raised        *)
(* instead of returning, the gate at which it ended, the identity key of   *)
(* resp.url (key), the keys added to visited_pages at line 74 (marked) and *)
(* the fingerprint of the page when line 89 computed it, and the keys      *)
(* added to visited_pages at line 115 (aliased).                           *)
(***************************************************************************)
Outcome(s, ret, raised, gate, key, marked, fingerprint) ==
    [s |-> s, ret |-> ret, raised |-> raised, gate |-> gate, key |-> key,
     marked |-> marked, aliased |-> {}, fingerprint |-> fingerprint]

\* update_longest_page_and_word_count with >= in the test of line 122
update_longest_page_on_ties(s, words, url) ==
    [s EXCEPT !.longest_page = IF Len(words) >= @[2] THEN <<url, Len(words)>> ELSE @,
              !.word_count = count_words(@, words)]

\* lines 122-127
update_longest_page_and_word_count(s, words, url) ==
    [s EXCEPT !.longest_page = IF Len(words) > @[2] THEN <<url, Len(words)>> ELSE @,
              !.word_count = count_words(@, words)]

\* lines 73-77
mark_visited(s, no_scheme_url, netloc) ==
    [s EXCEPT !.visited_pages = @ \cup {no_scheme_url},
              !.pages_in_front = @ \ {no_scheme_url},
              !.ics_subdomains = IF HasSub(netloc, ".ics.uci.edu") \/ netloc = "ics.uci.edu"
                                 THEN Bump(@, netloc) ELSE @]

\* record_page with the fingerprint inserted at index 0 of the list
record_page_at_front(s, words, page_fingerprint, resp_url) ==
    update_longest_page_and_word_count(
        [s EXCEPT !.all_fingerprints = <<page_fingerprint>> \o @], words, resp_url)

\* lines 92-95
record_page(s, words, page_fingerprint, resp_url) ==
    update_longest_page_and_word_count(
        [s EXCEPT !.all_fingerprints = Append(@, page_fingerprint)], words, resp_url)

\* lines 100-103: new_url and its identity key; error where urljoin,
\* urldefrag or urlparse raises ValueError
resolve_parsed(new_url, new_parsed_url) ==
    [new_url |-> new_url,
     key |-> IF new_parsed_url.error THEN None ELSE no_scheme_of(new_parsed_url),
     error |-> new_parsed_url.error]

resolve_joined(joined) ==
    IF joined.error THEN [new_url |-> joined.url, key |-> None, error |-> TRUE]
    ELSE resolve_parsed(urldefrag(lower(joined.url)).url,
                        urlparse(urldefrag(lower(joined.url)).url, FALSE))

resolve_link(base, href) == resolve_joined(urljoin(base, href))

\* link_is_new without the test of line 106
link_is_new_to_visited(link, robots) ==
    [ok |-> /\ robots.ret
            /\ link.key \notin robots.s.visited_pages,
     raised |-> FALSE, s |-> robots.s]

\* lines 105-106, after check_robots_txt has answered
link_is_new(link, robots) ==
    [ok |-> /\ robots.ret
            /\ link.key \notin robots.s.visited_pages
            /\ link.key \notin robots.s.pages_in_front,
     raised |-> FALSE, s |-> robots.s]

\* line 104: new_url and is_valid(new_url) and self.check_robots_txt(new_url)
link_is_valid(s, link, valid, web) ==
    IF valid.raised THEN [ok |-> FALSE, raised |-> TRUE, s |-> s]
    ELSE IF link.new_url = "" \/ ~valid.ret THEN [ok |-> FALSE, raised |-> FALSE, s |-> s]
    ELSE link_is_new(link, check_robots_txt(s, link.new_url, web))

\* the condition of lines 104-106: its value (ok) and the state after evaluating it
link_admissible(s, link, web) == link_is_valid(s, link, is_valid(link.new_url), web)

\* lines 107-108
admit(acc, link) ==
    [acc EXCEPT !.next_links = Append(@, link.new_url),
                !.s = [@ EXCEPT !.pages_in_front = @ \cup {link.key}]]

admit_checked(acc, link, check) ==
    IF check.raised THEN [acc EXCEPT !.s = check.s, !.raised = TRUE]
    ELSE IF check.ok THEN admit([acc EXCEPT !.s = check.s], link)
    ELSE [acc EXCEPT !.s = check.s]

\* lines 100-106 for a resolved link: resolving it raised, or the condition is evaluated
check_resolved(s, link, web) ==
    IF link.error THEN [ok |-> FALSE, raised |-> TRUE, s |-> s]
    ELSE link_admissible(s, link, web)

admit_resolved(acc, link, web) == admit_checked(acc, link, check_resolved(acc.s, link, web))

\* one iteration of the loop of lines 99-108; an exception ends the loop
admit_link(acc, base, href, web) ==
    IF acc.raised THEN acc ELSE admit_resolved(acc, resolve_link(base, href), web)

RECURSIVE admit_links(_, _, _, _)
admit_links(acc, base, hrefs, web) ==
    IF hrefs = <<>> THEN acc
    ELSE admit_links(admit_link(acc, base, Head(hrefs), web), base, Tail(hrefs), web)

\* lines 112-116 with the request URL parsed
add_alias(s, old_parsed_url) ==
    IF old_parsed_url.error THEN [s |-> s, raised |-> TRUE, aliased |-> {}]
    ELSE [s |-> [s EXCEPT !.visited_pages = @ \cup {no_scheme_of(old_parsed_url)},
                          !.num_redirect = @ + 1],
          raised |-> FALSE, aliased |-> {no_scheme_of(old_parsed_url)}]

\* lines 110-116
note_redirect(s, url, resp_url) ==
    IF lower(url) # lower(resp_url)
    THEN add_alias(s, urlparse(urldefrag(lower(url)).url, FALSE))
    ELSE [s |-> s, raised |-> FALSE, aliased |-> {}]

\* line 118
return_links(redirect, next_links, key, fingerprint) ==
    IF redirect.raised THEN Outcome(redirect.s, <<>>, TRUE, "raise", key, {key}, fingerprint)
    ELSE [Outcome(redirect.s, next_links, FALSE, "done", key, {key}, fingerprint)
            EXCEPT !.aliased = redirect.aliased]

\* lines 110-118 after the loop
after_links(loop, url, resp, key, fingerprint) ==
    IF loop.raised THEN Outcome(loop.s, <<>>, TRUE, "raise", key, {key}, fingerprint)
    ELSE return_links(note_redirect(loop.s, url, resp.url), loop.next_links, key, fingerprint)

\* lines 97-108
extract_links(s, url, resp, web, resp_url, key, fingerprint) ==
    after_links(admit_links([s |-> s, next_links |-> <<>>, raised |-> FALSE],
                            resp_url, page_hrefs(resp.raw_response), web),
                url, resp, key, fingerprint)

\* trap_gate with line 92 moved before line 90
trap_gate_appending(s, words, page_fingerprint, resp_url) ==
    IF check_for_recent_trap(page_fingerprint, s.all_fingerprints)
    THEN [gate |-> "trap", s |-> [s EXCEPT !.all_fingerprints = Append(@, page_fingerprint)],
          fingerprint |-> page_fingerprint]
    ELSE [gate |-> "pass", s |-> record_page(s, words, page_fingerprint, resp_url),
          fingerprint |-> page_fingerprint]

\* lines 90-95: gate is "trap" when the page is flagged, "pass" when it is recorded
trap_gate(s, words, page_fingerprint, resp_url) ==
    IF check_for_recent_trap(page_fingerprint, s.all_fingerprints)
    THEN [gate |-> "trap", s |-> s, fingerprint |-> page_fingerprint]
    ELSE [gate |-> "pass", s |-> record_page(s, words, page_fingerprint, resp_url),
          fingerprint |-> page_fingerprint]

\* size_gate with the test of line 85 moved after line 95
size_gate_recording(s, words, seed, resp_url) ==
    IF ~page_is_valid_size(words)
    THEN [gate |-> "size",
          s |-> record_page(s, words, create_fingerprint(words, seed), resp_url),
          fingerprint |-> None]
    ELSE trap_gate(s, words, create_fingerprint(words, seed), resp_url)

\* lines 85-89
size_gate(s, words, seed, resp_url) ==
    IF ~page_is_valid_size(words) THEN [gate |-> "size", s |-> s, fingerprint |-> None]
    ELSE trap_gate(s, words, create_fingerprint(words, seed), resp_url)

\* lines 83-95: the page is read, measured, compared and recorded
read_page(s, resp, seed, resp_url) ==
    size_gate(s, page_words(resp.raw_response), seed, resp_url)

\* what lines 61-71 leave: the gate that ended the call ("pass" if none), the
\* state, and the locals resp.url.lower(), parsed_url.netloc and no_scheme_url
Entered(gate, s, resp_url, parsed_url, key) ==
    [gate |-> gate, s |-> s, resp_url |-> resp_url, netloc |-> parsed_url.netloc, key |-> key]

\* lines 70-71
politeness_gate(robots, resp_url, parsed_url, key) ==
    Entered(IF robots.ret THEN "pass" ELSE "politeness", robots.s, resp_url, parsed_url, key)

\* entry_gate without the test `no_scheme_url in Scraper.visited_pages`
entry_gate_without_identity(s, resp, defrag_url, no_scheme_url) ==
    IF resp.status \notin ACCEPTED_STATUS THEN "status"
    ELSE IF resp.raw_response = None THEN "body"
    ELSE IF ~is_valid(defrag_url).ret THEN "validator"
    ELSE "pass"

\* the condition of lines 65-66: the first disjunct that holds, "pass" if none
entry_gate(s, resp, defrag_url, no_scheme_url) ==
    IF resp.status \notin ACCEPTED_STATUS THEN "status"
    ELSE IF resp.raw_response = None THEN "body"
    ELSE IF no_scheme_url \in s.visited_pages THEN "identity"
    ELSE IF ~is_valid(defrag_url).ret THEN "validator"
    ELSE "pass"

\* lines 65-71
gates(s, resp, web, resp_url, parsed_url, key, gate) ==
    IF gate # "pass" THEN Entered(gate, s, resp_url, parsed_url, key)
    ELSE politeness_gate(check_robots_txt(s, resp_url, web), resp_url, parsed_url, key)

\* lines 62-63; urlparse raises ValueError on a netloc with one bracket
parse_response_url(s, resp, web, resp_url, defrag_url, parsed_url) ==
    IF parsed_url.error THEN Entered("raise", s, resp_url, parsed_url, None)
    ELSE gates(s, resp, web, resp_url, parsed_url, no_scheme_of(parsed_url),
               entry_gate(s, resp, defrag_url, no_scheme_of(parsed_url)))

\* line 61
defrag_response_url(s, resp, web, resp_url, defrag_url) ==
    parse_response_url(s, resp, web, resp_url, defrag_url, urlparse(defrag_url, FALSE))

\* lines 61-71: the response URL is parsed and the call goes through the gates
enter(s, resp, web) ==
    defrag_response_url(s, resp, web, lower(resp.url), urldefrag(lower(resp.url)).url)

\* lines 83-118 once the page is marked visited
after_page(page, e, url, resp, web) ==
    IF page.gate # "pass"
    THEN Outcome(page.s, <<>>, FALSE, page.gate, e.key, {e.key}, page.fingerprint)
    ELSE extract_links(page.s, url, resp, web, e.resp_url, e.key, page.fingerprint)

\* lines 65-118 once the response URL is parsed
after_enter(e, url, resp, seed, web) ==
    IF e.gate # "pass" THEN Outcome(e.s, <<>>, e.gate = "raise", e.gate, e.key, {}, None)
    ELSE after_page(read_page(mark_visited(e.s, e.key, e.netloc), resp, seed, e.resp_url),
                    e, url, resp, web)

extract_next_links(s, url, resp, seed, web) ==
    after_enter(enter(s, resp, web), url, resp, seed, web)

\* line 47
valid_links(r) == [r EXCEPT !.ret = SelectSeq(@, LAMBDA link : is_valid(link).ret)]

\* Scraper.scraper: the links of extract_next_links that is_valid accepts
scraper(s, url, resp, seed, web) == valid_links(extract_next_links(s, url, resp, seed, web))

(***************************************************************************)
(* The session                                                             *)
(***************************************************************************)
VARIABLES
    visited_pages,      \* Scraper.visited_pages
    num_redirect,       \* Scraper.num_redirect
    pages_in_front,     \* Scraper.pages_in_front
    longest_page,       \* Scraper.longest_page
    word_count,         \* Scraper.word_count
    ics_subdomains,     \* Scraper.ics_subdomains
    all_fingerprints,   \* Scraper.all_fingerprints
    robot_allowed,      \* Scraper.robot_allowed
    robots_requests,    \* the network: GETs issued per robots.txt URL
    robots_queried,     \* the robots.txt URLs of the origins check_robots_txt was asked about
    robots_txt,         \* the web: the answer of each robots.txt URL
    hash_seed,          \* the hash seed of the process
    step5_keys,         \* history: the keys added at line 74
    last,               \* the last sequential call: its arguments, the key of its response URL and its outcome
    returned_keys,      \* history: the identity keys of the links scraper has returned
    alias_keys,         \* history: the keys added at line 115
    threads             \* the concurrent callers: their position in extract_next_links and their locals

vars == <<visited_pages, num_redirect, pages_in_front, longest_page, word_count,
          ics_subdomains, all_fingerprints, robot_allowed, robots_requests, robots_queried,
          robots_txt, hash_seed, step5_keys, last, returned_keys, alias_keys, threads>>

session == <<visited_pages, num_redirect, pages_in_front, longest_page, word_count,
             ics_subdomains, all_fingerprints, robot_allowed>>

State ==
    [visited_pages |-> visited_pages, num_redirect |-> num_redirect,
     pages_in_front |-> pages_in_front, longest_page |-> longest_page,
     word_count |-> word_count, ics_subdomains |-> ics_subdomains,
     all_fingerprints |-> all_fingerprints, robot_allowed |-> robot_allowed,
     robots_requests |-> robots_requests, robots_queried |-> robots_queried]

\* the state s becomes the state of the session
Becomes(s) ==
    /\ visited_pages' = s.visited_pages
    /\ num_redirect' = s.num_redirect
    /\ pages_in_front' = s.pages_in_front
    /\ longest_page' = s.longest_page
    /\ word_count' = s.word_count
    /\ ics_subdomains' = s.ics_subdomains
    /\ all_fingerprints' = s.all_fingerprints
    /\ robot_allowed' = s.robot_allowed
    /\ robots_requests' = s.robots_requests
    /\ robots_queried' = s.robots_queried

ROBOTS_A == "http://a.ics.uci.edu/robots.txt"

ROBOTS_B == "http://b.cs.uci.edu/robots.txt"

ROBOTS_T == "http://t.ics.uci.edu/robots.txt"

\* the robots.txt of the hosts: that of a allows the crawler, denies it, or
\* cannot be read; the others allow it
WEBS ==
    {[x \in {ROBOTS_A, ROBOTS_B, ROBOTS_T} |-> IF x = ROBOTS_A THEN answer ELSE "allow"] :
        answer \in {"allow", "deny", "error"}}

HashSeeds == {0, 1}

NoCall ==
    [url |-> None, resp |-> Response(None, 0, None), key |-> None, ret |-> <<>>,
     raised |-> FALSE, gate |-> "none", fingerprint |-> None]

NoThreads == <<>>

\* the class attributes as the class body sets them (lines 9-16)
InitSession ==
    /\ visited_pages = {}
    /\ num_redirect = 0
    /\ pages_in_front = {}
    /\ longest_page = <<"", -1>>
    /\ word_count = <<>>
    /\ ics_subdomains = <<>>
    /\ all_fingerprints = <<>>
    /\ robot_allowed = <<>>
    /\ robots_requests = <<>>
    /\ robots_queried = {}
    /\ step5_keys = {}
    /\ last = NoCall
    /\ returned_keys = {}
    /\ alias_keys = {}

Init ==
    /\ InitSession
    /\ robots_txt \in WEBS
    /\ hash_seed \in HashSeeds
    /\ threads = NoThreads

\* new_no_scheme_url (lines 101-103) of each link of a list
link_keys(links) ==
    {no_scheme_of(urlparse(urldefrag(links[i]).url, FALSE)) : i \in 1..Len(links)}

\* one call of Scraper.scraper(url, resp), run to its end
processPage(url, resp) ==
    \E r \in {scraper(State, url, resp, hash_seed, robots_txt)} :
        /\ Becomes(r.s)
        /\ step5_keys' = step5_keys \cup r.marked
        /\ last' = [url |-> url, resp |-> resp, key |-> r.key, ret |-> r.ret,
                    raised |-> r.raised, gate |-> r.gate, fingerprint |-> r.fingerprint]
        /\ returned_keys' = returned_keys \cup link_keys(r.ret)
        /\ alias_keys' = alias_keys \cup r.aliased
        /\ UNCHANGED <<robots_txt, hash_seed, threads>>

\* the calls scraper(url, resp) of the sequential session
CALLS ==
    {<<U1, Response(U1, 200, "pA")>>,
     <<U1, Response(U1, 200, "pT")>>,
     <<U2, Response(U2, 200, "pB")>>,
     <<U2, Response(U3, 200, "pG")>>,
     <<U3, Response(U3, 200, "pG")>>,
     <<U1f, Response(U1, 200, "pA")>>,
     <<U1, Response(U1c, 200, "pB")>>,
     <<U1, Response(U2, 200, "pB")>>,
     <<U1, Response(U4, 200, "pA")>>,
     <<U1, Response(U5, 200, "pA")>>,
     <<U1, Response(U1, 404, "pA")>>,
     <<U2, Response(U2, 200, None)>>,
     <<U3, Response(U3, 301, "pT")>>}

Next == \E c \in CALLS : processPage(c[1], c[2])

Spec == Init /\ [][Next]_vars

(***************************************************************************)
(* A session whose URLs differ in scheme, letter case or fragment only:    *)
(* as response URLs, as request URLs and as anchors (those of pB and pG).  *)
(***************************************************************************)
IDENTITY_CALLS ==
    {<<U1, Response(U1, 200, "pA")>>,
     <<U1s, Response(U1s, 200, "pB")>>,
     <<U1f, Response(U1, 200, "pA")>>,
     <<U1, Response(U1c, 200, "pB")>>,
     <<U1c, Response(U1f, 200, "pG")>>,
     <<U2, Response(U2, 200, "pB")>>,
     <<U3, Response(U3, 200, "pG")>>}

NextIdentity == \E c \in IDENTITY_CALLS : processPage(c[1], c[2])

SpecIdentity == Init /\ [][NextIdentity]_vars

(***************************************************************************)
(* A session that meets URLs urllib cannot parse: as the response URL, as  *)
(* the request URL, as an anchor of a page, and as the argument of a call  *)
(* of is_valid.                                                            *)
(***************************************************************************)
MALFORMED_CALLS ==
    {<<U1, Response(U1, 200, "pH")>>,
     <<U2, Response(U2, 200, "pH")>>,
     <<U6, Response(U6, 200, "pA")>>,
     <<U6, Response(U3, 200, "pG")>>,
     <<U1, Response(U1, 200, "pA")>>,
     <<U2, Response(U2, 200, "pB")>>}

MALFORMED_URLS == {U1, U4, U5, U6, U7}

\* one call of is_valid(url) by the crawler
validate(url) ==
    \E valid \in {is_valid(url)} :
        /\ last' = [NoCall EXCEPT !.url = url,
                                  !.raised = valid.raised,
                                  !.gate = IF valid.raised THEN "is_valid raised"
                                           ELSE IF valid.ret THEN "is_valid true"
                                           ELSE "is_valid false"]
        /\ UNCHANGED <<visited_pages, num_redirect, pages_in_front, longest_page, word_count,
                       ics_subdomains, all_fingerprints, robot_allowed, robots_requests,
                       robots_queried, robots_txt, hash_seed, step5_keys, returned_keys,
                       alias_keys, threads>>

NextMalformed ==
    \/ \E c \in MALFORMED_CALLS : processPage(c[1], c[2])
    \/ \E url \in MALFORMED_URLS : validate(url)

SpecMalformed == Init /\ [][NextMalformed]_vars

(***************************************************************************)
(* A long crawl: every call brings a page of a URL not seen before, so the *)
(* fingerprint history grows past TRAP_FINGERPRINT_CHECK.  The body of the *)
(* first page and of the pages from the 25th on is any of TRAP_BODIES; the *)
(* pages in between have the body pG.                                      *)
(***************************************************************************)
MaxCalls == 28

TrapUrl(n) == "http://t.ics.uci.edu/" \o ToString(n)

TRAP_BODIES == {"pA", "pB", "pC", "pE"}

TrapContents(n) ==
    IF n = 0 \/ n >= TRAP_FINGERPRINT_CHECK - 1 THEN TRAP_BODIES ELSE {"pG"}

ALLOW_ALL == [x \in {ROBOTS_A, ROBOTS_B, ROBOTS_T} |-> "allow"]

InitTrap ==
    /\ InitSession
    /\ robots_txt = ALLOW_ALL
    /\ hash_seed = 0
    /\ threads = NoThreads

\* the n-th page of the crawl is fetched and processed
crawlFresh(n, content) ==
    /\ n < MaxCalls
    /\ processPage(TrapUrl(n), Response(TrapUrl(n), 200, content))

NextTrap ==
    \E content \in TrapContents(Cardinality(visited_pages)) :
        crawlFresh(Cardinality(visited_pages), content)

SpecTrap == InitTrap /\ [][NextTrap]_vars

(***************************************************************************)
(* The long crawl with calls that end at the earlier gates: the first page *)
(* and the pages from the 25th on may be too short (pT), and the crawler   *)
(* may be handed again the first page, or a page with status 404.          *)
(***************************************************************************)
HistoryContents(n) == IF "pA" \in TrapContents(n) THEN TrapContents(n) \cup {"pT"} ELSE TrapContents(n)

\* the first page is delivered again
crawlAgain(content) ==
    /\ visited_pages # {}
    /\ processPage(TrapUrl(0), Response(TrapUrl(0), 200, content))

\* a page that was not found is delivered
crawlMissing(n) ==
    /\ n < MaxCalls
    /\ processPage(TrapUrl(n), Response(TrapUrl(n), 404, "pA"))

NextHistory ==
    \/ \E content \in HistoryContents(Cardinality(visited_pages)) :
            crawlFresh(Cardinality(visited_pages), content)
    \/ \E content \in {"pA", "pT"} : crawlAgain(content)
    \/ crawlMissing(Cardinality(visited_pages))

SpecHistory == InitTrap /\ [][NextHistory]_vars

(***************************************************************************)
(* Concurrent callers.  The class attributes are shared by every caller    *)
(* and no statement of the class takes a lock, so a call of                *)
(* extract_next_links runs as a sequence of steps between which the other  *)
(* callers run: the gates (lines 61-71), the marking (73-77), the reading  *)
(* of the page (83-95), for each anchor the condition of lines 100-106 and *)
(* then lines 107-108, and the redirect check and the return (110-118).    *)
(* A thread holds the locals of its call.                                  *)
(***************************************************************************)
Threads == {1, 2}

CONC_CALLS ==
    {<<U1, Response(U1, 200, "pA")>>,
     <<U1s, Response(U1s, 200, "pA")>>,
     <<U3, Response(U3, 200, "pG")>>}

Idle ==
    [pc |-> "idle", url |-> None, resp |-> Response(None, 0, None), resp_url |-> None,
     netloc |-> None, key |-> None, i |-> 0, link |-> [new_url |-> None, key |-> None],
     next_links |-> <<>>, gate |-> "none", raised |-> FALSE, ret |-> <<>>]

InitConc ==
    /\ InitSession
    /\ robots_txt = ALLOW_ALL
    /\ hash_seed = 0
    /\ threads = [t \in Threads |-> Idle]

\* line 49: a caller enters extract_next_links
enter_call(t) ==
    /\ threads[t].pc = "idle"
    /\ \E c \in CONC_CALLS :
        threads' = [threads EXCEPT ![t] = [Idle EXCEPT !.pc = "gates", !.url = c[1], !.resp = c[2]]]
    /\ UNCHANGED <<visited_pages, num_redirect, pages_in_front, longest_page, word_count,
                   ics_subdomains, all_fingerprints, robot_allowed, robots_requests,
                   robots_queried, robots_txt, hash_seed, step5_keys, last, returned_keys, alias_keys>>

\* lines 61-71
run_gates(t) ==
    /\ threads[t].pc = "gates"
    /\ \E e \in {enter(State, threads[t].resp, robots_txt)} :
        /\ Becomes(e.s)
        /\ threads' = [threads EXCEPT ![t] =
                [@ EXCEPT !.pc = IF e.gate = "pass" THEN "mark" ELSE "done",
                          !.gate = e.gate, !.raised = (e.gate = "raise"),
                          !.resp_url = e.resp_url, !.netloc = e.netloc, !.key = e.key]]
    /\ UNCHANGED <<robots_txt, hash_seed, step5_keys, last, returned_keys, alias_keys>>

\* lines 73-77
run_mark(t) ==
    /\ threads[t].pc = "mark"
    /\ Becomes(mark_visited(State, threads[t].key, threads[t].netloc))
    /\ step5_keys' = step5_keys \cup {threads[t].key}
    /\ threads' = [threads EXCEPT ![t] = [@ EXCEPT !.pc = "page"]]
    /\ UNCHANGED <<robots_txt, hash_seed, last, returned_keys, alias_keys>>

\* lines 83-95
run_page(t) ==
    /\ threads[t].pc = "page"
    /\ \E page \in {read_page(State, threads[t].resp, hash_seed, threads[t].resp_url)} :
        /\ Becomes(page.s)
        /\ threads' = [threads EXCEPT ![t] =
                [@ EXCEPT !.pc = IF page.gate = "pass" THEN "link" ELSE "done",
                          !.gate = page.gate, !.i = 1]]
    /\ UNCHANGED <<robots_txt, hash_seed, step5_keys, last, returned_keys, alias_keys>>

\* lines 99-106 for the i-th anchor: the link is resolved and the condition evaluated
run_link_check(t) ==
    /\ threads[t].pc = "link"
    /\ threads[t].i <= Len(page_hrefs(threads[t].resp.raw_response))
    /\ \E link \in {resolve_link(threads[t].resp_url,
                                 page_hrefs(threads[t].resp.raw_response)[threads[t].i])} :
       \E check \in {check_resolved(State, link, robots_txt)} :
        /\ Becomes(check.s)
        /\ threads' = [threads EXCEPT ![t] =
                [@ EXCEPT !.pc = IF check.raised THEN "done"
                                 ELSE IF check.ok THEN "admit" ELSE "link",
                          !.gate = IF check.raised THEN "raise" ELSE @,
                          !.raised = check.raised,
                          !.i = IF check.ok THEN @ ELSE @ + 1,
                          !.link = [new_url |-> link.new_url, key |-> link.key]]]
    /\ UNCHANGED <<robots_txt, hash_seed, step5_keys, last, returned_keys, alias_keys>>

\* lines 107-108 for the i-th anchor
run_link_admit(t) ==
    /\ threads[t].pc = "admit"
    /\ \E acc \in {admit([s |-> State, next_links |-> threads[t].next_links, raised |-> FALSE],
                         threads[t].link)} :
        /\ Becomes(acc.s)
        /\ threads' = [threads EXCEPT ![t] =
                [@ EXCEPT !.pc = "link", !.i = @ + 1, !.next_links = acc.next_links]]
    /\ UNCHANGED <<robots_txt, hash_seed, step5_keys, last, returned_keys, alias_keys>>

\* lines 110-118 and line 47: the redirect check, the return and the filter of scraper
run_return(t) ==
    /\ threads[t].pc = "link"
    /\ threads[t].i > Len(page_hrefs(threads[t].resp.raw_response))
    /\ \E r \in {valid_links(return_links(note_redirect(State, threads[t].url, threads[t].resp.url),
                                          threads[t].next_links, threads[t].key, None))} :
        /\ Becomes(r.s)
        /\ threads' = [threads EXCEPT ![t] =
                [@ EXCEPT !.pc = "done", !.gate = r.gate, !.raised = r.raised, !.ret = r.ret]]
    /\ UNCHANGED <<robots_txt, hash_seed, step5_keys, last, returned_keys, alias_keys>>

NextConc ==
    \E t \in Threads :
        \/ enter_call(t)
        \/ run_gates(t)
        \/ run_mark(t)
        \/ run_page(t)
        \/ run_link_check(t)
        \/ run_link_admit(t)
        \/ run_return(t)

SpecConc == InitConc /\ [][NextConc]_vars

(***************************************************************************)
(* Properties                                                              *)
(***************************************************************************)
\* the host of an identity key: what precedes its first "/", "?" or "#"
HostOfKey(key) == Upto(key, NetlocEnd(key, 1) - 1)

\* ics_subdomains after one more page of the host of key was counted
CountedOnce(key) ==
    IF HasSub(HostOfKey(key), ".ics.uci.edu") \/ HostOfKey(key) = "ics.uci.edu"
    THEN Bump(ics_subdomains, HostOfKey(key))
    ELSE ics_subdomains

\* C1: after a call that passed every gate and returned, no identity key is
\* both in pages_in_front and in visited_pages.
C1_FrontierDisjointFromVisited ==
    last.gate = "done" => visited_pages \cap pages_in_front = {}

\* C2: a call whose response URL has an identity key that is already in
\* visited_pages (put there as a response key or as a pre-redirect alias)
\* returns an empty list and leaves the session state unchanged.
C2_RevisitIsInert ==
    [][last'.key \in visited_pages => last'.ret = <<>> /\ session' = session]_vars

\* C2, its case: a call ended at the identity gate on a key that line 115 put
\* in visited_pages as the alias of a redirect.
C2_AliasRevisited ==
    /\ last.gate = "identity"
    /\ last.key \in visited_pages \ step5_keys
    /\ num_redirect > 0

\* C3, as amended: a call rejected at the size gate returns an empty list and
\* leaves all_fingerprints, word_count, longest_page, num_redirect and
\* robot_allowed unchanged, but it has marked the page: its key is added to
\* visited_pages and removed from pages_in_front, and its host is counted in
\* ics_subdomains when it is an ics.uci.edu host.
C3_SizeGateKeepsTheMark ==
    [][last'.gate = "size" =>
        /\ last'.ret = <<>>
        /\ visited_pages' = visited_pages \cup {last'.key}
        /\ pages_in_front' = pages_in_front \ {last'.key}
        /\ ics_subdomains' = CountedOnce(last'.key)
        /\ UNCHANGED <<all_fingerprints, word_count, longest_page, num_redirect,
                       robot_allowed>>]_vars

\* C3, its case: a 50-token page of an ics.uci.edu host was rejected at the
\* size gate in a session that has recorded other pages.
C3_ShortPageRejected ==
    /\ last.gate = "size"
    /\ last.key \in visited_pages
    /\ HostOfKey(last.key) \in DOMAIN ics_subdomains
    /\ all_fingerprints # <<>>

\* C3, as stated: a call rejected at the size gate returns an empty list and
\* mutates no session state.
C3_SizeGateInert ==
    [][last'.gate = "size" => last'.ret = <<>> /\ session' = session]_vars

\* C4: no page is flagged as a trap while all_fingerprints has at most
\* TRAP_FINGERPRINT_CHECK = 25 entries, so none of the first 26 pages that
\* reach the trap gate is flagged, whatever their fingerprints.
C4_ColdStart ==
    [][Len(all_fingerprints) <= 25 => last'.gate # "trap"]_vars

\* C4, its case: 26 pages reached the trap gate and all were recorded, the
\* last two with identical fingerprints.
C4_First26Recorded ==
    /\ Cardinality(visited_pages) = 26
    /\ Len(all_fingerprints) = 26
    /\ all_fingerprints[25] = all_fingerprints[26]
    /\ all_fingerprints[2] = all_fingerprints[3]

\* Jaccard similarity >= 0.9: |intersection| / |union|, taken as 1 when both
\* sets are empty
JaccardAtLeastNineTenths(f1, f2) ==
    IF f1 = {} /\ f2 = {} THEN TRUE
    ELSE 10 * Cardinality(f1 \cap f2) >= 9 * Cardinality(f1 \cup f2)

\* the call that makes the step reached the trap gate
ReachesTrapGate == last'.gate \in {"trap", "done", "raise"} /\ last'.key # None

\* C5: with L > 25 entries in all_fingerprints, a page that reaches the trap
\* gate is flagged exactly when its Jaccard similarity with one of the
\* entries at the 0-based indices L-26 .. L-2 is at least 0.9, and every
\* index that check_for_recent_trap reads lies within the list.
C5_TrapWindow ==
    [][(Len(all_fingerprints) > 25 /\ ReachesTrapGate) =>
        /\ (last'.gate = "trap") <=>
            (\E i \in (Len(all_fingerprints) - 26)..(Len(all_fingerprints) - 2) :
                JaccardAtLeastNineTenths(last'.fingerprint, all_fingerprints[i + 1]))
        /\ \A i \in TrapIndices(Len(all_fingerprints)) :
                0 <= i /\ i < Len(all_fingerprints)]_vars

\* C5, its case: the 28th page was recorded although its fingerprint is that
\* of the entry at index 0, which is older than the window, and its
\* similarity with the most recent entry at the time (index 26) is below 0.9.
C5_OlderThanWindowIgnored ==
    /\ Len(all_fingerprints) = 28
    /\ last.gate = "done"
    /\ all_fingerprints[28] = all_fingerprints[1]
    /\ all_fingerprints[28] # {}
    /\ ~JaccardAtLeastNineTenths(all_fingerprints[28], all_fingerprints[27])

\* C6, as amended: a page flagged at the trap gate yields an empty list, adds
\* no link to pages_in_front, and leaves all_fingerprints, word_count,
\* longest_page and num_redirect unchanged, but it has been marked: its key is
\* added to visited_pages and removed from pages_in_front, and its host is
\* counted in ics_subdomains when it is an ics.uci.edu host.
C6_TrapKeepsTheMark ==
    [][last'.gate = "trap" =>
        /\ last'.ret = <<>>
        /\ visited_pages' = visited_pages \cup {last'.key}
        /\ pages_in_front' = pages_in_front \ {last'.key}
        /\ ics_subdomains' = CountedOnce(last'.key)
        /\ UNCHANGED <<all_fingerprints, word_count, longest_page, num_redirect>>]_vars

\* C6, its case: a page of an ics.uci.edu host whose fingerprint equals a
\* recorded one was flagged at the trap gate, after being marked visited.
C6_PageFlagged ==
    /\ last.gate = "trap"
    /\ last.key \in visited_pages
    /\ last.fingerprint \in Range(all_fingerprints)
    /\ HostOfKey(last.key) \in DOMAIN ics_subdomains
    /\ Len(all_fingerprints) < Cardinality(visited_pages)

\* C6, as stated: a page flagged at the trap gate yields an empty list, adds
\* no link to pages_in_front, and leaves all_fingerprints and the counters
\* word_count, ics_subdomains, longest_page and num_redirect unchanged.
C6_TrapDiscardsEntirely ==
    [][last'.gate = "trap" =>
        /\ last'.ret = <<>>
        /\ pages_in_front' \subseteq pages_in_front
        /\ UNCHANGED <<all_fingerprints, word_count, ics_subdomains, longest_page,
                       num_redirect>>]_vars

\* the callers that have passed the identity gate for the key k
PassedGates(k) == {t \in DOMAIN threads : threads[t].key = k /\ threads[t].pc \notin {"idle", "gates"}
                                          /\ threads[t].gate = "pass"}

\* C7: two concurrent calls whose response URLs have the same identity key
\* never both pass the identity gate, so no page is recorded twice in
\* all_fingerprints.
C7_IdentityGateAtomic ==
    /\ \A t \in DOMAIN threads : threads[t].key # None => Cardinality(PassedGates(threads[t].key)) <= 1
    /\ Len(all_fingerprints) <= Cardinality(step5_keys)

\* the identity keys of the links a caller has admitted to its list
AdmittedKeys(t) ==
    {no_scheme_of(urlparse(threads[t].next_links[i], FALSE)) : i \in 1..Len(threads[t].next_links)}

\* C8: two concurrent calls that process different pages never both admit
\* the same identity key to their candidate lists.
C8_FrontierAddAtomic ==
    \A t1, t2 \in DOMAIN threads :
        (t1 # t2 /\ threads[t1].key # threads[t2].key) => AdmittedKeys(t1) \cap AdmittedKeys(t2) = {}

\* C9: the reported total of unique pages, len(visited_pages) - num_redirect,
\* is the number of distinct response keys marked visited at line 74.
C9_UniquePagesTotal ==
    Cardinality(visited_pages) - num_redirect = Cardinality(step5_keys)

OriginDenies(url) == web_answer(robots_txt, origin_of(url)) = "deny"

\* C11: a page of an origin whose robots.txt denies the crawler is rejected
\* before it is marked visited, with an empty list returned, and no link
\* under a denying origin is in a returned list.
C11_DenyingOriginRejected ==
    /\ (last.gate # "none" /\ OriginDenies(last.resp.url)) =>
            /\ last.gate \in {"status", "body", "identity", "validator", "politeness"}
            /\ last.ret = <<>>
            /\ last.key \notin step5_keys
    /\ \A i \in 1..Len(last.ret) : ~OriginDenies(last.ret[i])

\* C12: no call of is_valid or of scraper raises, and every link whose key a
\* call adds to pages_in_front is in the list the call returns.
C12_NeverRaisesNoLinkLost ==
    [][/\ ~last'.raised
       /\ (pages_in_front' \ pages_in_front) \subseteq link_keys(last'.ret)]_vars

\* the robots.txt of the origin of url cannot be read
OriginFails(url) == web_answer(robots_txt, origin_of(url)) = "error"

\* the requests made for the robots.txt of the origin of url in state s
RequestsFor(s, url) ==
    IF origin_of(url) \in DOMAIN s.robots_requests THEN s.robots_requests[origin_of(url)] ELSE 0

\* C13: in every state of the session, check_robots_txt returns True for a
\* URL whose origin's robots.txt cannot be read, after at most one request
\* for it, and no page of such an origin is rejected at the politeness gate
\* or makes the call raise.
C13_FailOpen ==
    /\ \A url \in {U1, U1s, U3} :
            OriginFails(url) =>
                /\ check_robots_txt(State, url, robots_txt).ret
                /\ RequestsFor(check_robots_txt(State, url, robots_txt).s, url)
                        <= RequestsFor(State, url) + 1
    /\ (last.gate # "none" /\ OriginFails(last.resp.url)) =>
            last.gate # "politeness" /\ ~last.raised

\* C13, its case: a page of an origin whose robots.txt cannot be read passed
\* the politeness gate, and a link of such an origin was returned.
C13_UnreadableOriginAllowed ==
    /\ last.gate = "done"
    /\ OriginFails(last.resp.url)
    /\ origin_of(last.resp.url) \in robots_queried
    /\ robots_txt[ROBOTS_A] = "error"
    /\ \E i \in 1..Len(last.ret) : OriginFails(last.ret[i])

\* C14: the fingerprint a process computes for a page is the fingerprint
\* every process computes for the same token sequence, whatever its hash
\* seed.
C14_FingerprintDeterministic ==
    last.gate \in {"trap", "done"} =>
        \A seed \in HashSeeds :
            create_fingerprint(page_words(last.resp.raw_response), seed) = last.fingerprint

\* the upper-case form of a URL
RECURSIVE UpperFrom(_, _)
UpperFrom(s, i) ==
    IF i > Len(s) THEN ""
    ELSE (IF \E c \in UPPERCASE_LETTERS : LowerChar(c) = Char(s, i)
          THEN CHOOSE c \in UPPERCASE_LETTERS : LowerChar(c) = Char(s, i)
          ELSE Char(s, i)) \o UpperFrom(s, i + 1)

\* url with the other of the schemes http and https
OtherScheme(url) ==
    IF StartsWith(lower(url), "http://") THEN "https://" \o From(url, 8)
    ELSE IF StartsWith(lower(url), "https://") THEN "http://" \o From(url, 9)
    ELSE url

\* url with another fragment: with none if it has one, with one if it has none
OtherFragment(url) ==
    IF Contains(url, "#") THEN Upto(url, Find(url, "#") - 1) ELSE url \o "#top"

\* the URLs that differ from url in scheme, letter case or fragment only
Variants(url) ==
    {url, OtherScheme(url), UpperFrom(url, 1), OtherFragment(url),
     OtherScheme(OtherFragment(UpperFrom(url, 1)))}

\* the identity key given to url as a response URL (lines 61-63), as the
\* href of an anchor of the page http://b.cs.uci.edu/r (lines 100-103) and as
\* the request URL of a redirected call (lines 112-114)
KeyAsResponse(url) == enter(State, Response(url, 200, "pA"), robots_txt).key

KeyAsLink(url) == resolve_link(U3, url).key

KeysAsAlias(url) == note_redirect(State, url, "http://b.cs.uci.edu/").aliased

\* the URLs of the last call: its request URL, its response URL, its links
UrlsOfLast == ({last.url, last.resp.url} \ {None}) \cup Range(last.ret)

\* C15: a URL that differs from a URL of the session in scheme, letter case
\* or fragment only is given the same identity key as it, whether the key is
\* computed for a response URL, for an outbound link or for a pre-redirect
\* request URL, and that key is the one the session holds for the page.
C15_IdentityEquivalence ==
    /\ \A url \in UrlsOfLast : \E key \in {KeyAsResponse(url)} : \A v \in Variants(url) :
            /\ KeyAsResponse(v) = key
            /\ KeyAsLink(v) = key
            /\ KeysAsAlias(v) = {key}
    /\ last.key # None => \A v \in Variants(last.resp.url) : KeyAsResponse(v) = last.key

\* C15, its case: the page of HTTP://A.ICS.UCI.EDU/P was taken for the page
\* of http://a.ics.uci.edu/p, visited before, and a redirect from
\* http://a.ics.uci.edu/p#s added no key to visited_pages.
C15_VariantsAreOnePage ==
    /\ last.resp.url = U1c
    /\ last.gate = "identity"
    /\ last.key \in step5_keys
    /\ alias_keys = {last.key}
    /\ visited_pages = {last.key}

\* the URL is eligible: its scheme is http or https, its host ends in an
\* allowed domain, its path holds no "/pdf" and ends in no denied extension
Eligible(url) ==
    \E p \in {urlparse(url, TRUE)} :
        /\ ~p.error
        /\ p.scheme \in {"http", "https"}
        /\ \E d \in ALLOWED_DOMAINS : EndsWith(p.netloc, "." \o d \o ".uci.edu")
        /\ ~HasSub(p.path, "/pdf")
        /\ \A e \in DENIED_EXTENSIONS : ~EndsWith(lower(p.path), "." \o e)

\* C16: every URL of the list scraper returns is eligible and is accepted by
\* is_valid; no returned URL has a path ending in .pdf.
C16_ReturnedLinksEligible ==
    \A i \in 1..Len(last.ret) :
        /\ Eligible(last.ret[i])
        /\ is_valid(last.ret[i]).ret
        /\ ~EndsWith(last.ret[i], ".pdf")

\* C16, its case: a page with anchors to a .pdf file and to a host outside
\* the allowed domains was processed, and only its two other links returned.
C16_PdfLinkDropped ==
    /\ last.gate = "done"
    /\ U4 \in Range(page_hrefs(last.resp.raw_response))
    /\ U5 \in Range(page_hrefs(last.resp.raw_response))
    /\ last.ret = <<U2, U3>>

\* C17: the identity keys of the links a call returns are pairwise distinct
\* and none of them is the key of a link an earlier call returned.
C17_KeyReturnedAtMostOnce ==
    [][/\ Cardinality(link_keys(last'.ret)) = Len(last'.ret)
       /\ link_keys(last'.ret) \cap returned_keys = {}]_vars

\* the identity keys of the anchors of the page of the last call
AnchorKeys ==
    {resolve_link(lower(last.resp.url), page_hrefs(last.resp.raw_response)[i]).key :
        i \in 1..Len(page_hrefs(last.resp.raw_response))}

\* C17, its case: a page was processed that has two anchors with one key,
\* and an anchor whose key an earlier call returned and whose page has not
\* been visited since; that key is not returned again.
C17_LinkSeenBeforeDropped ==
    /\ last.gate = "done"
    /\ Cardinality(AnchorKeys) < Len(page_hrefs(last.resp.raw_response))
    /\ \E key \in AnchorKeys :
            /\ key \in returned_keys \ link_keys(last.ret)
            /\ key \in pages_in_front \ visited_pages

\* C18: when a call returns, the key of every pre-redirect request URL
\* handled so far, by this call or an earlier one, is in visited_pages, and
\* no link of the returned list has such a key.
C18_AliasNeverOffered ==
    [][/\ alias_keys' \subseteq visited_pages'
       /\ link_keys(last'.ret) \cap alias_keys' = {}]_vars

\* C19: a call whose page passes the trap gate appends the fingerprint of
\* the page to all_fingerprints, whose earlier entries keep their values and
\* their places; every other call leaves all_fingerprints unchanged.
C19_HistoryAppendOnly ==
    [][IF last'.gate = "done"
       THEN all_fingerprints' = Append(all_fingerprints, last'.fingerprint)
       ELSE all_fingerprints' = all_fingerprints]_vars

\* C19, its case: with more than 25 entries in the list, among them those
\* of pages that are not similar, a page was flagged as a trap; before it
\* pages were rejected at the size gate.
C19_HistoryKeptAcrossGates ==
    /\ last.gate = "trap"
    /\ Len(all_fingerprints) > TRAP_FINGERPRINT_CHECK
    /\ Len(all_fingerprints) < Cardinality(visited_pages) - 1
    /\ all_fingerprints[1] # all_fingerprints[2]

\* the raw token count of the page of the call that makes the step
TokensOfPage == Len(page_words(last'.resp.raw_response))

\* C20: a call whose page passes the trap gate and has more tokens,
\* stopwords included, than longest_page records makes longest_page that
\* page and its token count; every other call, a page with as many tokens
\* included, leaves longest_page as it is; the count recorded is the initial
\* -1 or lies within PAGE_MIN_SIZE .. PAGE_MAX_SIZE, and never decreases.
C20_LongestPage ==
    [][/\ IF last'.gate = "done" /\ TokensOfPage > longest_page[2]
          THEN longest_page' = <<lower(last'.resp.url), TokensOfPage>>
          ELSE longest_page' = longest_page
       /\ longest_page'[2] >= longest_page[2]
       /\ longest_page'[2] = -1 \/ longest_page'[2] \in 250..10000
       /\ (longest_page'[2] = -1) <=> (all_fingerprints' = <<>>)]_vars

\* C20, its case: the last page passed the trap gate with as many tokens as
\* the longest page, which is an earlier page and stays the longest.
C20_TieKeepsEarlierPage ==
    /\ last.gate = "done"
    /\ Len(page_words(last.resp.raw_response)) = longest_page[2]
    /\ longest_page[1] # lower(last.resp.url)
    /\ longest_page[2] = PAGE_MIN_SIZE
    /\ Len(all_fingerprints) = 2


====
